---------------------------- MODULE Spec2Model ----------------------------
(***************************************************************************)
(* Book recommendation service (books-rec): the in-memory collaborative    *)
(* store (app/user_history.py) and the recommendation engine               *)
(* (app/recommender.py) over the vector-search adapter (app/vector_db.py). *)
(*                                                                         *)
(* Numbers.  Similarity scores of the backend are carried in thousandths   *)
(* (0.304 is 304), match scores and store scores in hundredths (what       *)
(* round(x, 2) yields: 0.67 is 67), average ratings as the exact fraction  *)
(* sum/len, weights and the rating threshold in tenths (0.7 is 7, 3.0 is   *)
(* 30).  None is NoneStr for strings and NoRating for a rating.            *)
(***************************************************************************)
EXTENDS Integers, Sequences, FiniteSets, TLC

VARIABLES
    settings,       \* app.config.settings, fixed when the process starts
    user_books,     \* UserHistoryStore._user_books : user id -> set of keys
    book_users,     \* UserHistoryStore._book_users : key -> set of user ids
    book_info,      \* UserHistoryStore._book_info  : key -> BookSnapshot
    book_ratings,   \* UserHistoryStore._book_ratings : key -> (user id -> rating)
    last_call,      \* the store call made last, with its arguments and result
    calls,          \* number of direct store calls made so far
    lock,           \* UserHistoryStore._lock: the thread holding it, or NoneStr
    threads,        \* the threads calling the store: position and locals of each
    pc,             \* position of the request being served by the engine
    request,        \* the RecommendationRequest being served
    user_id,        \* generate_recommendations: user_id
    seed_book,      \* generate_recommendations: seed_book
    seed_best,      \* best score among the results of the seed query (0: none)
    categories,     \* generate_recommendations: categories
    used_titles,    \* generate_recommendations: used_titles
    todo,           \* authors, then genres, still to be queried (most_common(2))
    failed_at,      \* shelves whose backend call raised during this request
    queries,        \* backend searches and store queries made for this request
    outcome,        \* how the last request ended: "none", "ok" (a Response), "error"
    response,       \* the Response returned last (a sequence of shelves)
    anon_count,     \* number of generated anonymous user ids
    requests        \* number of requests started

store_vars == <<user_books, book_users, book_info, book_ratings>>
engine_vars == <<pc, request, user_id, seed_book, seed_best, categories, used_titles, todo,
                 failed_at, queries, outcome, response, anon_count, requests>>
thread_vars == <<lock, threads>>
vars == <<settings, store_vars, last_call, calls, thread_vars, engine_vars>>

-----------------------------------------------------------------------------
(* Bounds of the model *)

\* Longest history of a request and longest list given to record_history.
MaxHist == 2
\* Number of direct record_history calls explored by SpecStore.
MaxRecords == 2
\* Number of requests served one after the other in Spec.
MaxRequests == 2
\* settings.MAX_RECOMMENDATIONS_PER_CATEGORY as configured (default 5).
MaxPerCategory == 2

-----------------------------------------------------------------------------
(* Values *)

NoneStr == "<None>"
NoRating == 0

Range(s) == {s[i] : i \in DOMAIN s}

\* dict.get(k, default) and d[k] = v on a dict kept as a function.
Get(d, k, default) == IF k \in DOMAIN d THEN d[k] ELSE default
Put(d, k, v) == [x \in (DOMAIN d) \cup {k} |-> IF x = k THEN v ELSE d[x]]
EmptyDict == [x \in {} |-> 0]

\* str.strip().lower() on the strings of the model.
Lower(s) ==
    CASE s = "Dune" -> "dune"
      [] s = "Emma" -> "emma"
      [] s = "Ubik" -> "ubik"
      [] s = "Solaris" -> "solaris"
      [] s = "Lalka" -> "lalka"
      [] s = "Momo" -> "momo"
      [] s = "Frank Herbert" -> "frank herbert"
      [] s = "Jane Austen" -> "jane austen"
      [] s = "Stanislaw Lem" -> "stanislaw lem"
      [] s = "Unknown Author" -> "unknown author"
      [] s = " N/A " -> "n/a"
      [] OTHER -> s

\* BookInput values (models.py): title, author, genre (optional), rating (optional).
BookInput(t, a, g, r) == [title |-> t, author |-> a, genre |-> g, rating |-> r]

\* UserHistoryStore._make_key
make_key(title, author) == Lower(title) \o "|" \o Lower(author)

\* The keys of the model in Python's string order (used by ranked.sort).
KeyOrder ==
    <<"dune|frank herbert", "emma|jane austen", "solaris|stanislaw lem",
      "ubik|unknown author">>
KeyIndex(k) == CHOOSE i \in DOMAIN KeyOrder : KeyOrder[i] = k

\* The settings the process may run with: config.py's defaults, and an
\* environment that overrides the weights and the two thresholds.
DefaultConfig ==
    [COOCCURRENCE_WEIGHT |-> 7, RATING_WEIGHT |-> 3,
     PEOPLE_ALSO_MIN_AVG_RATING |-> 30, SIMILARITY_THRESHOLD |-> 300]

OverriddenConfig ==
    [COOCCURRENCE_WEIGHT |-> 0, RATING_WEIGHT |-> 10,
     PEOPLE_ALSO_MIN_AVG_RATING |-> 40, SIMILARITY_THRESHOLD |-> 304]

Configs == {DefaultConfig, OverriddenConfig}

\* Environments that set other weights: 0.1 and 0.2, and both weights zero.
BlendConfig ==
    [COOCCURRENCE_WEIGHT |-> 1, RATING_WEIGHT |-> 2,
     PEOPLE_ALSO_MIN_AVG_RATING |-> 30, SIMILARITY_THRESHOLD |-> 300]

ZeroWeightConfig ==
    [COOCCURRENCE_WEIGHT |-> 0, RATING_WEIGHT |-> 0,
     PEOPLE_ALSO_MIN_AVG_RATING |-> 30, SIMILARITY_THRESHOLD |-> 300]

WeightConfigs == {BlendConfig, ZeroWeightConfig}

-----------------------------------------------------------------------------
(* UserHistoryStore *)

TheStore == [user_books |-> user_books, book_users |-> book_users,
             book_info |-> book_info, book_ratings |-> book_ratings]

EmptyStore == [user_books |-> EmptyDict, book_users |-> EmptyDict,
               book_info |-> EmptyDict, book_ratings |-> EmptyDict]

BookSnapshot(book, language) ==
    [title |-> book.title, author |-> book.author,
     genre |-> book.genre, language |-> language]

\* One iteration of record_history's loop (lines 41-52).
record_edges_NoSnapshot(st, uid, book, language) ==
    LET key == make_key(book.title, book.author) IN
    [st EXCEPT
       !.user_books = Put(@, uid, Get(@, uid, {}) \cup {key}),
       !.book_users = Put(@, key, Get(@, key, {}) \cup {uid})]

record_edges_Overwrite(st, uid, book, language) ==
    LET key == make_key(book.title, book.author) IN
    [st EXCEPT
       !.user_books = Put(@, uid, Get(@, uid, {}) \cup {key}),
       !.book_users = Put(@, key, Get(@, key, {}) \cup {uid}),
       !.book_info = Put(@, key, BookSnapshot(book, language))]

record_edges_Replace(st, uid, book, language) ==
    LET key == make_key(book.title, book.author) IN
    [st EXCEPT
       !.user_books = Put(@, uid, {key}),
       !.book_users = Put(@, key, Get(@, key, {}) \cup {uid}),
       !.book_info = IF key \in DOMAIN @ THEN @
                     ELSE Put(@, key, BookSnapshot(book, language))]

record_edges(st, uid, book, language) ==
    LET key == make_key(book.title, book.author) IN
    [st EXCEPT
       !.user_books = Put(@, uid, Get(@, uid, {}) \cup {key}),
       !.book_users = Put(@, key, Get(@, key, {}) \cup {uid}),
       !.book_info = IF key \in DOMAIN @ THEN @
                     ELSE Put(@, key, BookSnapshot(book, language))]

record_book_accumulate(st, uid, book, language) ==
    LET key == make_key(book.title, book.author)
        s1 == record_edges(st, uid, book, language)
        old == Get(Get(st.book_ratings, key, EmptyDict), uid, NoRating)
    IN  IF book.rating = NoRating THEN s1
        ELSE [s1 EXCEPT !.book_ratings =
                Put(@, key, Put(Get(@, key, EmptyDict), uid,
                                IF old = NoRating THEN book.rating ELSE old))]

record_book_Always(st, uid, book, language) ==
    LET key == make_key(book.title, book.author)
        s1 == record_edges(st, uid, book, language)
    IN  [s1 EXCEPT !.book_ratings =
            Put(@, key, Put(Get(@, key, EmptyDict), uid, book.rating))]

record_book(st, uid, book, language) ==
    LET key == make_key(book.title, book.author)
        s1 == record_edges(st, uid, book, language)
    IN  IF book.rating = NoRating THEN s1
        ELSE [s1 EXCEPT !.book_ratings =
                Put(@, key, Put(Get(@, key, EmptyDict), uid, book.rating))]

\* record_history: setdefault(user_id, set()), then the loop over books.
RECURSIVE record_loop(_, _, _, _)
record_loop(st, uid, books, language) ==
    IF books = <<>> THEN st
    ELSE record_loop(record_book(st, uid, Head(books), language),
                     uid, Tail(books), language)

record_history(st, uid, books, language) ==
    record_loop([st EXCEPT !.user_books = Put(@, uid, Get(@, uid, {}))],
                uid, books, language)


\* sum(rating_values) over the raters in S.
RECURSIVE SumRatings(_, _)
SumRatings(ratings, S) ==
    IF S = {} THEN 0
    ELSE LET u == CHOOSE x \in S : TRUE
         IN  ratings[u] + SumRatings(ratings, S \ {u})

Min(a, b) == IF a <= b THEN a ELSE b
Max(a, b) == IF a >= b THEN a ELSE b

\* round(num/den, 2) in hundredths, for num >= 0 and den > 0; an exact tie goes
\* to the even neighbour, as Python rounds an exactly representable value.
Round2(num, den) ==
    LET q == (100 * num) \div den
        r == (100 * num) % den
    IN  IF 2 * r > den THEN q + 1
        ELSE IF 2 * r < den THEN q
        ELSE IF q % 2 = 0 THEN q ELSE q + 1

\* recommend_from_cooccurrence, line 62.
SeedKeys(seed_books) == {make_key(b.title, b.author) : b \in Range(seed_books)}

\* Lines 65-68.
OtherUsers_All(st, seed_books, exclude_user_id) ==
    UNION {Get(st.book_users, k, {}) : k \in SeedKeys(seed_books)}

OtherUsers(st, seed_books, exclude_user_id) ==
    UNION {Get(st.book_users, k, {}) : k \in SeedKeys(seed_books)}
        \ {exclude_user_id}

\* Lines 70-80: the Counter of candidate keys.
Counts(st, seed_books, exclude_user_id, exclude_titles) ==
    LET others == OtherUsers(st, seed_books, exclude_user_id)
        cand == {k \in UNION {Get(st.user_books, u, {}) : u \in others} :
                    /\ k \notin SeedKeys(seed_books)
                    /\ k \in DOMAIN st.book_info
                    /\ st.book_info[k].title \notin exclude_titles}
    IN  [k \in cand |->
            Cardinality({u \in others : k \in Get(st.user_books, u, {})})]

\* Lines 92-96: the raters of a key other than the excluded user.
Raters(st, book_key, exclude_user_id) ==
    {u \in DOMAIN Get(st.book_ratings, book_key, EmptyDict) : u # exclude_user_id}

\* Line 99: avg_rating < settings.PEOPLE_ALSO_MIN_AVG_RATING.
BelowMinAvg_Strict(cfg, sum, n) == 10 * sum <= cfg.PEOPLE_ALSO_MIN_AVG_RATING * n

BelowMinAvg(cfg, sum, n) == 10 * sum < cfg.PEOPLE_ALSO_MIN_AVG_RATING * n

\* Lines 91-115: the score of one candidate, in hundredths.
Score_BaseOnly(cfg, st, book_key, count, max_count, exclude_user_id) ==
    Round2(Min(max_count, count), max_count)

Score_RawRating(cfg, st, book_key, count, max_count, exclude_user_id) ==
    LET raters == Raters(st, book_key, exclude_user_id)
        n == Cardinality(raters)
        sum == SumRatings(st.book_ratings[book_key], raters)
        weight_total == Max(cfg.COOCCURRENCE_WEIGHT + cfg.RATING_WEIGHT, 0)
        bnum == Min(max_count, count)
    IN  IF n = 0 THEN Round2(bnum, max_count)
        ELSE IF weight_total > 0
             THEN Round2(cfg.COOCCURRENCE_WEIGHT * bnum * n
                            + cfg.RATING_WEIGHT * sum * max_count,
                         weight_total * max_count * n)
             ELSE Round2(bnum, max_count)

Score(cfg, st, book_key, count, max_count, exclude_user_id) ==
    LET raters == Raters(st, book_key, exclude_user_id)
        n == Cardinality(raters)
        sum == SumRatings(st.book_ratings[book_key], raters)
        \* rating_score = max(0.0, min(1.0, avg_rating / 5.0)) = rnum / rden
        rnum == Max(0, Min(5 * n, sum))
        rden == 5 * n
        weight_total == Max(cfg.COOCCURRENCE_WEIGHT + cfg.RATING_WEIGHT, 0)
        bnum == Min(max_count, count)   \* base_score = min(1.0, count / max_count)
    IN  IF n = 0 THEN Round2(bnum, max_count)
        ELSE IF weight_total > 0
             THEN Round2(cfg.COOCCURRENCE_WEIGHT * bnum * rden
                            + cfg.RATING_WEIGHT * rnum * max_count,
                         weight_total * max_count * rden)
             ELSE Round2(bnum, max_count)

\* Lines 85-116: the (score, count, book_key) tuples that pass the rating gate.
Ranked(cfg, st, seed_books, exclude_user_id, exclude_titles) ==
    LET counts == Counts(st, seed_books, exclude_user_id, exclude_titles)
        max_count == CHOOSE m \in Range(counts) : \A c \in Range(counts) : c <= m
        gated(k) ==
            LET raters == Raters(st, k, exclude_user_id)
            IN  /\ raters # {}
                /\ BelowMinAvg(cfg, SumRatings(st.book_ratings[k], raters),
                               Cardinality(raters))
    IN  {[score |-> Score(cfg, st, k, counts[k], max_count, exclude_user_id),
          count |-> counts[k], book_key |-> k] :
            k \in {x \in DOMAIN counts : ~gated(x)}}

\* Python's tuple order on (score, count, book_key).
TupleGreater_NoCount(a, b) ==
    \/ a.score > b.score
    \/ a.score = b.score /\ KeyIndex(a.book_key) > KeyIndex(b.book_key)

TupleGreater(a, b) ==
    \/ a.score > b.score
    \/ a.score = b.score /\ a.count > b.count
    \/ a.score = b.score /\ a.count = b.count
         /\ KeyIndex(a.book_key) > KeyIndex(b.book_key)

\* ranked.sort(reverse=True), line 118.
RECURSIVE SortReverse(_)
SortReverse(S) ==
    IF S = {} THEN <<>>
    ELSE LET m == CHOOSE x \in S : \A y \in S \ {x} : TupleGreater(x, y)
         IN  <<m>> \o SortReverse(S \ {m})

\* A loop that appends and then breaks once len(results) >= limit.
Truncate_Off(seq, limit) == seq

Truncate(seq, limit) == SubSeq(seq, 1, Min(Len(seq), Max(limit, 1)))

\* recommend_from_cooccurrence: the list of result dicts.
recommend_from_cooccurrence(cfg, st, seed_books, exclude_user_id, exclude_titles, limit) ==
    IF DOMAIN Counts(st, seed_books, exclude_user_id, exclude_titles) = {}
    THEN <<>>
    ELSE LET ranked == SortReverse(Ranked(cfg, st, seed_books, exclude_user_id,
                                          exclude_titles))
             dict(t) == [title |-> st.book_info[t.book_key].title,
                         author |-> st.book_info[t.book_key].author,
                         genre |-> st.book_info[t.book_key].genre,
                         language |-> st.book_info[t.book_key].language,
                         score |-> t.score]
         IN  Truncate([i \in DOMAIN ranked |-> dict(ranked[i])], limit)

-----------------------------------------------------------------------------
(* Direct use of the store: SpecStore *)

StoreUsers == {"u1", "u2", "u3"}
Languages == {"pl", "en"}

\* The books callers report: X, two candidates A and B, and a differently
\* cased and tagged report of A.
BookX == BookInput("Dune", "Frank Herbert", "SciFi", NoRating)
BookA(r) == BookInput("Emma", "Jane Austen", "Romance", r)
BookA2 == BookInput("emma", "jane austen", NoneStr, NoRating)
BookB(r) == BookInput("Ubik", "Unknown Author", "SciFi", r)

\* The lists given to record_history.
StoreLists ==
    { <<BookX, BookA(5), BookB(5)>>, <<BookX, BookA(NoRating)>>,
      <<BookX, BookA(2)>>, <<BookX, BookB(NoRating)>>,
      <<BookA(2)>>, <<BookA(4)>>, <<BookA2>> }

SeqsUpTo(S, n) == UNION {[1..k -> S] : k \in 1..n}

NoCall == [op |-> "none"]

\* The threads that call the store concurrently, and a thread outside any call.
LockThreads == {"t1", "t2", "t3"}
IdleThread == [pc |-> "idle"]

EngineIdle ==
    /\ pc = "idle" /\ request = NoneStr /\ user_id = NoneStr
    /\ seed_book = NoneStr /\ seed_best = 0 /\ categories = <<>> /\ used_titles = {}
    /\ todo = <<>> /\ failed_at = {} /\ queries = 0
    /\ outcome = "none" /\ response = <<>>
    /\ anon_count = 0 /\ requests = 0

InitWith(Cfgs) ==
    /\ settings \in Cfgs
    /\ user_books = EmptyDict /\ book_users = EmptyDict
    /\ book_info = EmptyDict /\ book_ratings = EmptyDict
    /\ last_call = NoCall /\ calls = 0
    /\ lock = NoneStr /\ threads = [t \in LockThreads |-> IdleThread]
    /\ EngineIdle

SetStore(st) ==
    /\ user_books' = st.user_books /\ book_users' = st.book_users
    /\ book_info' = st.book_info /\ book_ratings' = st.book_ratings

\* A caller runs user_history_store.record_history(uid, books, language).
StoreRecord ==
    /\ calls < MaxRecords
    /\ \E uid \in StoreUsers, books \in StoreLists,
          language \in Languages :
         /\ SetStore(record_history(TheStore, uid, books, language))
         /\ last_call' =
              [op |-> "record", uid |-> uid, books |-> books, language |-> language,
               repeat |-> \A i \in DOMAIN books :
                             make_key(books[i].title, books[i].author)
                                \in Get(user_books, uid, {}),
               old |-> Get(Get(book_ratings,
                               make_key(books[1].title, books[1].author),
                               EmptyDict), uid, NoRating)]
    /\ calls' = calls + 1
    /\ UNCHANGED <<settings, thread_vars, engine_vars>>

\* A caller runs user_history_store.recommend_from_cooccurrence(...).
StoreRecommend ==
    /\ \E seed \in {BookX, BookA(5)}, eu \in StoreUsers,
          et \in {{}, {"Emma"}}, limit \in {1, MaxPerCategory} :
         last_call' =
            [op |-> "recommend", seed_books |-> <<seed>>, exclude_user_id |-> eu,
             exclude_titles |-> et, limit |-> limit,
             counts |-> Counts(TheStore, <<seed>>, eu, et),
             result |-> recommend_from_cooccurrence(settings, TheStore, <<seed>>,
                                                    eu, et, limit)]
    /\ UNCHANGED <<settings, store_vars, calls, thread_vars, engine_vars>>

NextStore == StoreRecord \/ StoreRecommend

InitStore == InitWith(Configs)

SpecStore == InitStore /\ [][NextStore]_vars

\* The same calls under the other weights.
SpecWeights == InitWith(WeightConfigs) /\ [][NextStore]_vars

-----------------------------------------------------------------------------
(* The store under concurrent callers, one step per statement: SpecLock *)

\* The calls the threads make.
LockUsers == {"u1", "u2"}
LockLists == {<<BookX, BookA(5)>>, <<BookA(2), BookB(NoRating)>>}

\* with self._lock: the lock can be taken when no thread holds it.
LockFree_Off == TRUE

LockFree == lock = NoneStr

SetThread(t, th) == threads' = [threads EXCEPT ![t] = th]

\* A thread enters record_history(uid, books, language).
CallRecord(t) ==
    /\ threads[t].pc = "idle"
    /\ \E uid \in LockUsers, books \in LockLists :
          SetThread(t, [pc |-> "acquire", op |-> "record", uid |-> uid,
                        books |-> books, language |-> "en", i |-> 1])
    /\ UNCHANGED <<settings, store_vars, last_call, calls, lock, engine_vars>>

\* A thread enters recommend_from_cooccurrence and computes seed_keys (line 62).
CallRecommend(t) ==
    /\ threads[t].pc = "idle"
    /\ \E eu \in LockUsers :
          SetThread(t, [pc |-> "acquire", op |-> "recommend",
                        seed_books |-> <<BookX>>, exclude_user_id |-> eu,
                        exclude_titles |-> {}, limit |-> MaxPerCategory,
                        other_users |-> {}, counts |-> EmptyDict,
                        result |-> <<>>])
    /\ UNCHANGED <<settings, store_vars, last_call, calls, lock, engine_vars>>

\* with self._lock: (lines 38 and 64).
Acquire(t) ==
    /\ threads[t].pc = "acquire"
    /\ LockFree
    /\ lock' = t
    /\ SetThread(t, [threads[t] EXCEPT !.pc =
                        IF threads[t].op = "record" THEN "setdefault"
                                                    ELSE "other_users"])
    /\ UNCHANGED <<settings, store_vars, last_call, calls, engine_vars>>

\* Line 39: user_set = self._user_books.setdefault(user_id, set()).
Setdefault(t) ==
    /\ threads[t].pc = "setdefault"
    /\ SetStore([TheStore EXCEPT !.user_books =
                    Put(@, threads[t].uid, Get(@, threads[t].uid, {}))])
    /\ SetThread(t, [threads[t] EXCEPT !.pc =
                        IF threads[t].books = <<>> THEN "release" ELSE "user_set"])
    /\ UNCHANGED <<settings, last_call, calls, lock, engine_vars>>

\* Lines 41-52: one statement of the loop body for books[i].
RecordStep(t) ==
    /\ threads[t].pc \in {"user_set", "book_users", "book_info", "book_ratings"}
    /\ LET th == threads[t]
           book == th.books[th.i]
           key == make_key(book.title, book.author)
       IN  /\ SetStore(
                CASE th.pc = "user_set" ->
                       [TheStore EXCEPT !.user_books =
                           Put(@, th.uid, Get(@, th.uid, {}) \cup {key})]
                  [] th.pc = "book_users" ->
                       [TheStore EXCEPT !.book_users =
                           Put(@, key, Get(@, key, {}) \cup {th.uid})]
                  [] th.pc = "book_info" ->
                       IF key \in DOMAIN book_info THEN TheStore
                       ELSE [TheStore EXCEPT !.book_info =
                               Put(@, key, BookSnapshot(book, th.language))]
                  [] th.pc = "book_ratings" ->
                       IF book.rating = NoRating THEN TheStore
                       ELSE [TheStore EXCEPT !.book_ratings =
                               Put(@, key, Put(Get(@, key, EmptyDict),
                                               th.uid, book.rating))])
           /\ SetThread(t,
                CASE th.pc = "user_set" -> [th EXCEPT !.pc = "book_users"]
                  [] th.pc = "book_users" -> [th EXCEPT !.pc = "book_info"]
                  [] th.pc = "book_info" -> [th EXCEPT !.pc = "book_ratings"]
                  [] th.pc = "book_ratings" ->
                       IF th.i < Len(th.books)
                       THEN [th EXCEPT !.pc = "user_set", !.i = th.i + 1]
                       ELSE [th EXCEPT !.pc = "release"])
    /\ UNCHANGED <<settings, last_call, calls, lock, engine_vars>>

\* Lines 65-68, 70-80 and 85-134: the three passes of the query over the store.
ReadStep(t) ==
    /\ threads[t].pc \in {"other_users", "counts", "ranked"}
    /\ LET th == threads[t] IN
         SetThread(t,
            CASE th.pc = "other_users" ->
                   [th EXCEPT !.pc = "counts",
                              !.other_users = OtherUsers(TheStore, th.seed_books,
                                                         th.exclude_user_id)]
              [] th.pc = "counts" ->
                   LET counts == Counts(TheStore, th.seed_books,
                                        th.exclude_user_id, th.exclude_titles)
                   IN  \* if not counts: return [] (lines 82-83)
                       [th EXCEPT !.pc = IF DOMAIN counts = {} THEN "release"
                                                               ELSE "ranked",
                                  !.counts = counts]
              [] th.pc = "ranked" ->
                   [th EXCEPT !.pc = "release",
                              !.result = recommend_from_cooccurrence(settings, TheStore,
                                            th.seed_books, th.exclude_user_id,
                                            th.exclude_titles, th.limit)])
    /\ UNCHANGED <<settings, store_vars, last_call, calls, lock, engine_vars>>

\* Leaving the with block releases the lock; the call returns.
Release_KeepLock(t) ==
    /\ threads[t].pc = "release"
    /\ lock' = (IF threads[t].op = "recommend" /\ DOMAIN threads[t].counts = {}
                THEN lock ELSE NoneStr)
    /\ SetThread(t, [threads[t] EXCEPT !.pc = "done"])
    /\ UNCHANGED <<settings, store_vars, last_call, calls, engine_vars>>

Release(t) ==
    /\ threads[t].pc = "release"
    /\ lock' = NoneStr
    /\ SetThread(t, [threads[t] EXCEPT !.pc = "done"])
    /\ UNCHANGED <<settings, store_vars, last_call, calls, engine_vars>>

NextThreads(T) ==
    \E t \in T :
        \/ CallRecord(t)
        \/ CallRecommend(t)
        \/ Acquire(t)
        \/ Setdefault(t)
        \/ RecordStep(t)
        \/ ReadStep(t)
        \/ Release(t)

NextLock == NextThreads(LockThreads)

SpecLock == InitWith({DefaultConfig}) /\ [][NextLock]_vars

\* The threads that make calls under the fair scheduler.
FairThreads == {"t1", "t2"}

NextFair == NextThreads(FairThreads)

\* The same threads under a scheduler that lets the system progress: while
\* the lock is free and some thread waits for it, some waiting thread gets it,
\* and the thread that holds the lock eventually runs its next statement.  No
\* order among the waiting threads is assumed, and a thread need not ever
\* make a call.
FairLock ==
    /\ InitWith({DefaultConfig}) /\ [][NextFair]_vars
    /\ WF_vars(\E t \in FairThreads : Acquire(t))
    /\ WF_vars(\E t \in FairThreads :
                  Setdefault(t) \/ RecordStep(t) \/ ReadStep(t) \/ Release(t))

-----------------------------------------------------------------------------
(* VectorDBService: the Qdrant collection and search_similar *)

\* The points of the collection (payloads); a point's id is its position.  Two
\* editions of one book are two points with the same title.
IndexPoints ==
    << [title |-> "Dune", author |-> "Frank Herbert", genre |-> "SciFi",
        language |-> "en"],
       [title |-> "Emma", author |-> "Jane Austen", genre |-> "Romance",
        language |-> "en"],
       [title |-> "Solaris", author |-> "Stanislaw Lem", genre |-> "SciFi",
        language |-> "en"],
       [title |-> "Lalka", author |-> "Boleslaw Prus", genre |-> "Classic",
        language |-> "pl"],
       [title |-> "Faust", author |-> "Johann Wolfgang von Goethe",
        genre |-> "Classic", language |-> "de"],
       [title |-> "Faust", author |-> "J. W. Goethe", genre |-> "Classic",
        language |-> "de"],
       [title |-> "Momo", author |-> "Michael Ende", genre |-> "Fantasy",
        language |-> "de"] >>

\* The points that pass query_filter (lines 147-164); an empty or None filter
\* value adds no condition.
Matching(language, genre) ==
    {p \in DOMAIN IndexPoints :
        /\ language \in {NoneStr, ""} \/ IndexPoints[p].language = language
        /\ genre \in {NoneStr, ""} \/ IndexPoints[p].genre = genre}

\* Whether hit a ranks before hit b: higher score first, equal scores in the
\* collection's own order.
RanksBefore(sc, a, b) == sc[a] > sc[b] \/ (sc[a] = sc[b] /\ a < b)

\* client.query_points(..., limit = n): the n best matching points under the
\* scores sc the query gives them, best first.
QueryPoints(sc, n) ==
    LET P == DOMAIN sc
        rank(p) == 1 + Cardinality({q \in P : RanksBefore(sc, q, p)})
        k == Min(n, Cardinality(P))
    IN  [i \in 1..k |->
            LET p == CHOOSE q \in P : rank(q) = i
            IN  [id |-> p, title |-> IndexPoints[p].title,
                 author |-> IndexPoints[p].author,
                 genre |-> IndexPoints[p].genre,
                 language |-> IndexPoints[p].language, score |-> sc[p]]]

\* Lines 175-196: drop the hits with an excluded title, stop at limit books.
RECURSIVE FilterHits(_, _, _, _)
FilterHits(hits, exclude_titles, limit, books) ==
    IF hits = <<>> THEN books
    ELSE IF exclude_titles # {} /\ Head(hits).title \in exclude_titles
         THEN FilterHits(Tail(hits), exclude_titles, limit, books)
         ELSE IF Len(books) + 1 >= limit
              THEN Append(books, Head(hits))
              ELSE FilterHits(Tail(hits), exclude_titles, limit,
                              Append(books, Head(hits)))

\* search_similar for a query that scores the matching points by sc.
search_similar_NoExclusion(sc, limit, exclude_titles) ==
    FilterHits(QueryPoints(sc, limit + Cardinality(exclude_titles)),
               {}, limit, <<>>)

search_similar(sc, limit, exclude_titles) ==
    FilterHits(QueryPoints(sc, limit + Cardinality(exclude_titles)),
               exclude_titles, limit, <<>>)

-----------------------------------------------------------------------------
(* RecommendationEngine *)

\* RecommendedBook; score is the backend's (or the store's) score the item was
\* built from, kept beside match_score for the properties below.
RecommendedBook(r, match_score) ==
    [title |-> r.title, author |-> r.author, genre |-> r.genre,
     language |-> r.language, match_score |-> match_score, score |-> r.score]

RecommendationCategory(title, type, items) ==
    [category_title |-> title, type |-> type, items |-> items]

Titles(items) == {items[i].title : i \in DOMAIN items}

\* _is_unknown_author
is_unknown_author_Exact(author) ==
    \/ author \in {"", NoneStr}
    \/ author \in {"unknown", "unknown author", "nieznany",
                    "nieznany autor", "brak", "n/a"}

is_unknown_author(author) ==
    \/ author \in {"", NoneStr}
    \/ Lower(author) \in {"unknown", "unknown author", "nieznany",
                          "nieznany autor", "brak", "n/a"}

\* The items of a similarity-filtered shelf (lines 146-157, 191-202, 268-279).
AboveThreshold_Off(cfg, r) == r.score >= 0

AboveThreshold(cfg, r) == r.score >= cfg.SIMILARITY_THRESHOLD

RECURSIVE KeepAbove(_, _)
KeepAbove(cfg, results) ==
    IF results = <<>> THEN <<>>
    ELSE IF AboveThreshold(cfg, Head(results))
         THEN <<Head(results)>> \o KeepAbove(cfg, Tail(results))
         ELSE KeepAbove(cfg, Tail(results))

SimilarItems(cfg, results) ==
    LET kept == KeepAbove(cfg, results)
    IN  [i \in DOMAIN kept |-> RecommendedBook(kept[i], Round2(kept[i].score, 1000))]

\* _get_similar_to_book.  The Polish titles are written without diacritics.
get_similar_to_book_Author(cfg, book, language, results) ==
    RecommendationCategory(
        IF language = "pl" THEN "Poniewaz czytales: " \o book.author
                           ELSE "Because you read: " \o book.author,
        "content_similarity", SimilarItems(cfg, results))

get_similar_to_book(cfg, book, language, results) ==
    RecommendationCategory(
        IF language = "pl" THEN "Poniewaz czytales: " \o book.title
                           ELSE "Because you read: " \o book.title,
        "content_similarity", SimilarItems(cfg, results))

\* _get_by_author, after the unknown-author guard
get_by_author(cfg, author, language, results) ==
    RecommendationCategory(
        IF language = "pl" THEN "Wiecej od: " \o author
                           ELSE "More from: " \o author,
        "author_based", SimilarItems(cfg, results))

\* _get_by_genre
get_by_genre(cfg, genre, language, results) ==
    RecommendationCategory(
        IF language = "pl" THEN "Topowe " \o genre \o " po polsku"
                           ELSE "Top " \o genre \o " books",
        "genre_top", SimilarItems(cfg, results))

\* _get_people_also_added with a store that is never consulted.
get_people_also_added_Empty(cfg, st, seed, language, exclude_titles, uid) ==
    RecommendationCategory("Readers who added: " \o seed.title \o " also added",
                           "people_also_added", <<>>)

\* _get_people_also_added
get_people_also_added(cfg, st, seed, language, exclude_titles, uid) ==
    LET results == recommend_from_cooccurrence(cfg, st, <<seed>>, uid,
                                               exclude_titles, MaxPerCategory)
    IN  RecommendationCategory(
            IF language = "pl"
            THEN "Czytelnicy, ktorzy dodali: " \o seed.title \o ", dodali tez"
            ELSE "Readers who added: " \o seed.title \o " also added",
            "people_also_added",
            [i \in DOMAIN results |-> RecommendedBook(results[i], results[i].score)])

\* The serendipity band of _get_discoveries (line 317).
InBand_Wide(score) == 399 <= score /\ score <= 751

InBand(score) == 400 <= score /\ score <= 750

\* The loop without its break.
RECURSIVE DiscoveryItems_NoBreak(_, _)
DiscoveryItems_NoBreak(results, items) ==
    IF results = <<>> THEN items
    ELSE IF InBand(Head(results).score)
         THEN DiscoveryItems_NoBreak(Tail(results),
                  Append(items, RecommendedBook(Head(results),
                                                Round2(Head(results).score, 1000))))
         ELSE DiscoveryItems_NoBreak(Tail(results), items)

\* _get_discoveries, lines 313-329.
RECURSIVE DiscoveryItems(_, _)
DiscoveryItems(results, items) ==
    IF results = <<>> THEN items
    ELSE IF InBand(Head(results).score)
         THEN LET next == Append(items, RecommendedBook(Head(results),
                                        Round2(Head(results).score, 1000)))
              IN  IF Len(next) >= MaxPerCategory THEN next
                  ELSE DiscoveryItems(Tail(results), next)
         ELSE DiscoveryItems(Tail(results), items)

get_discoveries(language, results) ==
    RecommendationCategory(
        IF language = "pl" THEN "Odkrycia dla Ciebie" ELSE "Discoveries for You",
        "serendipity", DiscoveryItems(results, <<>>))

\* Counter(xs).most_common(2): the values of xs by falling count, equal counts
\* in the order of first occurrence.
MostCommon2_ByFirst(xs) ==
    LET vals == Range(xs)
        first(v) == CHOOSE i \in DOMAIN xs :
                        xs[i] = v /\ \A j \in DOMAIN xs : xs[j] = v => i <= j
        rank(v) == 1 + Cardinality({w \in vals : first(w) < first(v)})
    IN  [i \in 1..Min(2, Cardinality(vals)) |-> CHOOSE v \in vals : rank(v) = i]

MostCommon2(xs) ==
    LET vals == Range(xs)
        count(v) == Cardinality({i \in DOMAIN xs : xs[i] = v})
        first(v) == CHOOSE i \in DOMAIN xs :
                        xs[i] = v /\ \A j \in DOMAIN xs : xs[j] = v => i <= j
        before(a, b) == count(a) > count(b)
                            \/ (count(a) = count(b) /\ first(a) < first(b))
        rank(v) == 1 + Cardinality({w \in vals : before(w, v)})
    IN  [i \in 1..Min(2, Cardinality(vals)) |-> CHOOSE v \in vals : rank(v) = i]

\* Lines 69-73 and 83-87: the authors, then the genres, to query.
RECURSIVE KnownAuthors(_)
KnownAuthors(history) ==
    IF history = <<>> THEN <<>>
    ELSE IF is_unknown_author(Head(history).author)
         THEN KnownAuthors(Tail(history))
         ELSE <<Head(history).author>> \o KnownAuthors(Tail(history))

RECURSIVE Genres(_)
Genres(history) ==
    IF history = <<>> THEN <<>>
    ELSE IF Head(history).genre \in {NoneStr, ""}
         THEN Genres(Tail(history))
         ELSE <<Head(history).genre>> \o Genres(Tail(history))

AuthorQueries(history) ==
    LET top == MostCommon2(KnownAuthors(history))
    IN  [i \in DOMAIN top |-> [kind |-> "author", name |-> top[i]]]

GenreQueries(history) ==
    LET top == MostCommon2(Genres(history))
    IN  [i \in DOMAIN top |-> [kind |-> "genre", name |-> top[i]]]

\* categories.append(c) and used_titles.update(...) when c.items is not empty.
AppendShelf_Always(cats, c) == Append(cats, c)

AppendShelf_Front(cats, c) == IF c.items # <<>> THEN <<c>> \o cats ELSE cats

AppendShelf(cats, c) == IF c.items # <<>> THEN Append(cats, c) ELSE cats

\* The requests clients send.
RequestUsers == {"u1", NoneStr}

EngineEntries ==
    { BookInput("Dune", "Frank Herbert", "SciFi", 5),
      BookInput("Emma", "Jane Austen", "Romance", 2),
      BookInput("Ubik", "Unknown Author", "SciFi", NoRating) }

\* Scores the backend gives (thousandths): below every threshold, and inside
\* the serendipity band.
CoarseScores == {250, 500}

\* An exception raised by the backend call of a shelf ends the request: nothing
\* in generate_recommendations or get_recommendations catches it.
Abort(shelf) ==
    /\ pc' = "done"
    /\ outcome' = "error"
    /\ failed_at' = failed_at \cup {shelf}
    /\ queries' = queries + 1
    /\ response' = <<>>
    /\ UNCHANGED <<categories, used_titles, todo, store_vars>>

\* RecommendationRequest validation: history has min_length=1.
ValidRequest_Off(history) == TRUE

ValidRequest(history) == Len(history) >= 1

\* The histories clients send, the empty one included.
Histories(Entries) == {<<>>} \cup SeqsUpTo(Entries, MaxHist)

\* The best score among the results of a search (0 when there is none).
BestScore(results) ==
    IF results = <<>> THEN 0
    ELSE CHOOSE m \in {results[i].score : i \in DOMAIN results} :
            \A i \in DOMAIN results : results[i].score <= m

\* _pick_seed_book: the seeds it may return.
pick_seed_book(history) ==
    IF Len(history) = 1 THEN {history[1]} ELSE Range(history)

\* The request body fails validation: FastAPI answers 422 and the handler is
\* never entered.
Reject(max_requests, Users, Hists) ==
    /\ pc = "idle"
    /\ requests < max_requests
    /\ requests' = requests + 1
    /\ \E uid \in Users, language \in Languages, history \in Hists :
          /\ ~ValidRequest(history)
          /\ request' = [user_id |-> uid, preferred_language |-> language,
                         history |-> history]
    /\ pc' = "done" /\ outcome' = "invalid" /\ response' = <<>>
    /\ UNCHANGED <<settings, store_vars, last_call, calls, thread_vars, user_id,
                   seed_book, seed_best,
                   categories, used_titles, todo, failed_at, queries, anon_count>>

\* Lines 41-66: the request arrives, the seed is picked, the content_similarity
\* and people_also_added shelves are built.
Begin(ScoreSet, max_requests, Users, Hists) ==
    /\ pc = "idle"
    /\ requests < max_requests
    /\ requests' = requests + 1
    /\ \E uid \in Users, language \in Languages, history \in Hists :
          /\ ValidRequest(history)
          /\ request' = [user_id |-> uid, preferred_language |-> language,
                         history |-> history]
          /\ IF uid \in {NoneStr, ""}
             THEN /\ user_id' = "anon-" \o ToString(anon_count + 1)
                  /\ anon_count' = anon_count + 1
             ELSE /\ user_id' = uid
                  /\ anon_count' = anon_count
          /\ IF history = <<>>
             THEN \* random.choice([]) raises IndexError (line 109)
                  /\ seed_book' = NoneStr /\ seed_best' = 0
                  /\ failed_at' = {} /\ queries' = 0
                  /\ pc' = "done" /\ outcome' = "error" /\ response' = <<>>
                  /\ categories' = <<>> /\ used_titles' = {} /\ todo' = <<>>
                  /\ UNCHANGED store_vars
             ELSE \E seed \in pick_seed_book(history) :
                  /\ seed_book' = seed
                  /\ \/ /\ failed_at' = {}
                        /\ queries' = 2
                        /\ \E sc \in [Matching(language, NoneStr) -> ScoreSet] :
                             LET read_titles == {history[i].title : i \in DOMAIN history}
                                 results == search_similar(sc, MaxPerCategory, read_titles)
                                 similar == get_similar_to_book(settings, seed, language,
                                                                results)
                                 used1 == read_titles \cup Titles(similar.items)
                                 people == get_people_also_added(settings, TheStore, seed,
                                                language, used1, user_id')
                             IN  /\ seed_best' = BestScore(results)
                                 /\ categories' = AppendShelf(AppendShelf(<<>>, similar), people)
                                 /\ used_titles' = used1 \cup Titles(people.items)
                        /\ todo' = AuthorQueries(history) \o GenreQueries(history)
                        /\ pc' = "serving"
                        /\ UNCHANGED <<outcome, response, store_vars>>
                     \/ /\ failed_at' = {"content_similarity"}
                        /\ queries' = 1 /\ seed_best' = 0
                        /\ pc' = "done" /\ outcome' = "error" /\ response' = <<>>
                        /\ categories' = <<>> /\ used_titles' = {} /\ todo' = <<>>
                        /\ UNCHANGED store_vars
    /\ UNCHANGED <<settings, last_call, calls, thread_vars>>

\* Lines 73-80: one iteration of the author loop.
AuthorShelf(ScoreSet) ==
    /\ pc = "serving" /\ todo # <<>> /\ Head(todo).kind = "author"
    /\ \/ /\ \E sc \in [Matching(request.preferred_language, NoneStr) -> ScoreSet] :
               LET c == get_by_author(settings, Head(todo).name,
                            request.preferred_language,
                            search_similar(sc, MaxPerCategory, used_titles))
               IN  /\ categories' = AppendShelf(categories, c)
                   /\ used_titles' = used_titles \cup Titles(c.items)
          /\ todo' = Tail(todo)
          /\ queries' = queries + 1
          /\ UNCHANGED <<failed_at, pc, outcome, response, store_vars>>
       \/ Abort("author_based")
    /\ UNCHANGED <<settings, last_call, calls, thread_vars, request, user_id,
                   seed_book, seed_best,
                   anon_count, requests>>

\* Lines 87-93: one iteration of the genre loop.
GenreShelf(ScoreSet) ==
    /\ pc = "serving" /\ todo # <<>> /\ Head(todo).kind = "genre"
    /\ \/ /\ \E sc \in [Matching(request.preferred_language, Head(todo).name)
                            -> ScoreSet] :
               LET c == get_by_genre(settings, Head(todo).name,
                            request.preferred_language,
                            search_similar(sc, MaxPerCategory, used_titles))
               IN  /\ categories' = AppendShelf(categories, c)
                   /\ used_titles' = used_titles \cup Titles(c.items)
          /\ todo' = Tail(todo)
          /\ queries' = queries + 1
          /\ UNCHANGED <<failed_at, pc, outcome, response, store_vars>>
       \/ Abort("genre_top")
    /\ UNCHANGED <<settings, last_call, calls, thread_vars, request, user_id,
                   seed_book, seed_best,
                   anon_count, requests>>

\* Lines 95-103: the serendipity shelf, record_history, and the Response.
\* last_call keeps the results of the shelf's one search (lines 302-307).
Finish(ScoreSet) ==
    /\ pc = "serving" /\ todo = <<>>
    /\ \/ /\ \E sc \in [Matching(request.preferred_language, NoneStr) -> ScoreSet] :
               LET results == search_similar(sc, MaxPerCategory * 2, used_titles)
                   c == get_discoveries(request.preferred_language, results)
               IN  /\ categories' = AppendShelf(categories, c)
                   /\ response' = AppendShelf(categories, c)
                   /\ last_call' = [op |-> "search",
                                    language |-> request.preferred_language,
                                    genre |-> NoneStr,
                                    limit |-> MaxPerCategory * 2,
                                    exclude_titles |-> used_titles,
                                    result |-> results]
          /\ SetStore(record_history(TheStore, user_id, request.history,
                                     request.preferred_language))
          /\ pc' = "done"
          /\ outcome' = "ok"
          /\ queries' = queries + 1
          /\ UNCHANGED <<used_titles, todo, failed_at>>
       \/ Abort("serendipity") /\ UNCHANGED last_call
    /\ UNCHANGED <<settings, calls, thread_vars, request, user_id,
                   seed_book, seed_best,
                   anon_count, requests>>

\* The handler has returned (or raised): the Response is serialized and the
\* request's objects are dropped; the store and the id counter remain.
Return ==
    /\ pc = "done"
    /\ pc' = "idle" /\ request' = NoneStr /\ user_id' = NoneStr
    /\ seed_book' = NoneStr /\ seed_best' = 0 /\ categories' = <<>> /\ used_titles' = {}
    /\ todo' = <<>> /\ failed_at' = {} /\ queries' = 0
    /\ outcome' = "none" /\ response' = <<>> /\ last_call' = NoCall
    /\ UNCHANGED <<settings, store_vars, calls, thread_vars, anon_count, requests>>

Next ==
    \/ Reject(MaxRequests, RequestUsers, Histories(EngineEntries))
    \/ Begin(CoarseScores, MaxRequests, RequestUsers, Histories(EngineEntries))
    \/ AuthorShelf(CoarseScores)
    \/ GenreShelf(CoarseScores)
    \/ Finish(CoarseScores)
    \/ Return

Init == InitWith({DefaultConfig})

Spec == Init /\ [][Next]_vars

\* One request under either configuration, the backend scoring on a finer
\* grid: around both similarity thresholds and at both ends of the band.
FineScores == {300, 304, 399, 400, 750, 751}

ScoreEntries ==
    { BookInput("Dune", "Frank Herbert", "SciFi", 5),
      BookInput("Ubik", "Unknown Author", NoneStr, NoRating) }

NextScores ==
    \/ Reject(1, {"u1"}, Histories(ScoreEntries))
    \/ Begin(FineScores, 1, {"u1"}, Histories(ScoreEntries))
    \/ AuthorShelf(FineScores)
    \/ GenreShelf(FineScores)
    \/ Finish(FineScores)
    \/ Return

SpecScores == InitStore /\ [][NextScores]_vars

\* One request whose history mixes known and unknown authors: two entries by
\* one known author with an "Unknown Author" entry in either position, two
\* known authors with an " N/A " entry, and no known author at all.
AuthorHistories ==
    { << BookInput("Dune", "Frank Herbert", "SciFi", 5),
         BookInput("Ubik", "Frank Herbert", "SciFi", NoRating),
         BookInput("Emma", "Unknown Author", NoneStr, NoRating) >>,
      << BookInput("Emma", "Unknown Author", NoneStr, NoRating),
         BookInput("Ubik", "Unknown Author", NoneStr, NoRating),
         BookInput("Dune", "Frank Herbert", "SciFi", 5) >>,
      << BookInput("Dune", "Frank Herbert", "SciFi", 5),
         BookInput("Ubik", " N/A ", NoneStr, NoRating),
         BookInput("Emma", "Jane Austen", "Romance", 2) >>,
      << BookInput("Emma", "", NoneStr, NoRating),
         BookInput("Ubik", "Unknown Author", NoneStr, NoRating) >>,
      <<>> }

NextAuthors ==
    \/ Reject(1, {"u1"}, AuthorHistories)
    \/ Begin(CoarseScores, 1, {"u1"}, AuthorHistories)
    \/ AuthorShelf(CoarseScores)
    \/ GenreShelf(CoarseScores)
    \/ Finish(CoarseScores)
    \/ Return

SpecAuthors == Init /\ [][NextAuthors]_vars

\* A caller runs vector_db.search_similar(query_text, language, genre, limit,
\* exclude_titles); the query scores the matching points by sc.
SearchLanguages == {"de", "pl", NoneStr}
SearchGenres == {NoneStr, "Classic"}
SearchExcludes == {{}, {"Faust"}, {"Momo"}, {"Faust", "Lalka"}}

SearchSimilar ==
    /\ \E language \in SearchLanguages, genre \in SearchGenres,
          limit \in 1..MaxPerCategory, exclude_titles \in SearchExcludes :
         \E sc \in [Matching(language, genre) -> CoarseScores] :
            last_call' = [op |-> "search", language |-> language, genre |-> genre,
                          limit |-> limit, exclude_titles |-> exclude_titles,
                          result |-> search_similar(sc, limit, exclude_titles)]
    /\ UNCHANGED <<settings, store_vars, calls, thread_vars, engine_vars>>

NextSearch == SearchSimilar

SpecSearch == Init /\ [][NextSearch]_vars

-----------------------------------------------------------------------------
(* Claims about the engine *)

Returned == pc = "done" /\ outcome = "ok"

ReadTitles == {request.history[i].title : i \in DOMAIN request.history}

ShelfTypes(types) == {i \in DOMAIN response : response[i].type \in types}

\* C1: no item of a returned shelf has a title of the request's history, nor
\* the title of an item of an earlier shelf of the same Response.
C1_NoReadNoRepeatedTitle ==
    Returned =>
        \A i \in DOMAIN response : \A k \in DOMAIN response[i].items :
            /\ response[i].items[k].title \notin ReadTitles
            /\ \A j \in 1..(i - 1) :
                  response[i].items[k].title \notin Titles(response[j].items)

\* A Response with a people_also_added shelf and a later shelf, for a history
\* whose title the collection holds as well.
C1_Witness ==
    /\ Returned
    /\ \E i, j \in DOMAIN response :
          i < j /\ response[i].type = "people_also_added"
    /\ \E p \in DOMAIN IndexPoints :
          /\ IndexPoints[p].title \in ReadTitles
          /\ IndexPoints[p].language = request.preferred_language

\* C2 as stated: every item of a content_similarity, author_based or
\* genre_top shelf has matchScore >= similarityThreshold.
C2_MatchScoreAtLeastThreshold ==
    Returned =>
        \A i \in ShelfTypes({"content_similarity", "author_based", "genre_top"}) :
            \A k \in DOMAIN response[i].items :
                10 * response[i].items[k].match_score
                    >= settings.SIMILARITY_THRESHOLD

\* C2 amended: every such item was built from a backend score >=
\* similarityThreshold and its matchScore is that score rounded to two
\* decimals, hence matchScore >= similarityThreshold - 0.005, and matchScore
\* >= similarityThreshold when the threshold is a multiple of 0.01.
C2_ScoreAtLeastThreshold ==
    Returned =>
        \A i \in ShelfTypes({"content_similarity", "author_based", "genre_top"}) :
            \A k \in DOMAIN response[i].items :
                LET it == response[i].items[k]
                    thr == settings.SIMILARITY_THRESHOLD
                IN  /\ it.score >= thr
                    /\ 10 * it.match_score + 5 >= thr
                    /\ 10 * it.match_score - 5 <= it.score
                    /\ thr % 10 = 0 => 10 * it.match_score >= thr

\* An item kept at a score equal to the threshold.
C2_Witness ==
    /\ Returned
    /\ \E i \in ShelfTypes({"content_similarity", "author_based", "genre_top"}) :
          \E k \in DOMAIN response[i].items :
              response[i].items[k].score = settings.SIMILARITY_THRESHOLD

\* C3: every item of the serendipity shelf has a score in [0.4, 0.75]: the
\* backend score it was built from, and the matchScore shown.
C3_DiscoveriesInBand ==
    Returned =>
        \A i \in ShelfTypes({"serendipity"}) :
            \A k \in DOMAIN response[i].items :
                /\ 400 <= response[i].items[k].score
                /\ response[i].items[k].score <= 750
                /\ 40 <= response[i].items[k].match_score
                /\ response[i].items[k].match_score <= 75

\* A serendipity shelf holding both ends of the band.
C3_Witness ==
    /\ Returned
    /\ \E i \in ShelfTypes({"serendipity"}) :
          /\ \E k \in DOMAIN response[i].items : response[i].items[k].score = 400
          /\ \E k \in DOMAIN response[i].items : response[i].items[k].score = 750

TypeRank(type) ==
    CASE type = "content_similarity" -> 1
      [] type = "people_also_added" -> 2
      [] type = "author_based" -> 3
      [] type = "genre_top" -> 4
      [] type = "serendipity" -> 5

\* C7: the shelves of a Response appear in the order content_similarity,
\* people_also_added, author_based, genre_top, serendipity, with at most one
\* content_similarity, people_also_added and serendipity shelf and at most two
\* author_based and two genre_top shelves.
C7_ShelfOrder ==
    Returned =>
        /\ \A i, j \in DOMAIN response :
              i < j => TypeRank(response[i].type) <= TypeRank(response[j].type)
        /\ Cardinality(ShelfTypes({"content_similarity"})) <= 1
        /\ Cardinality(ShelfTypes({"people_also_added"})) <= 1
        /\ Cardinality(ShelfTypes({"serendipity"})) <= 1
        /\ Cardinality(ShelfTypes({"author_based"})) <= 2
        /\ Cardinality(ShelfTypes({"genre_top"})) <= 2

\* A Response with shelves of three types, people_also_added among them.
C7_Witness ==
    /\ Returned
    /\ Cardinality({response[i].type : i \in DOMAIN response}) >= 3
    /\ ShelfTypes({"people_also_added"}) # {}

\* C8: no Response holds a shelf with zero items.
C8_NoEmptyShelf ==
    Returned => \A i \in DOMAIN response : response[i].items # <<>>

\* Every retrieval came back without a usable result: the Response is empty.
C8_Witness ==
    /\ Returned
    /\ response = <<>>
    /\ used_titles = ReadTitles

\* C9 as stated: when a generate_recommendations call has ended, every history
\* entry's key is in the user's book set and the user in that key's user set.
C9_HistoryRecorded ==
    pc = "done" =>
        \A i \in DOMAIN request.history :
            LET k == make_key(request.history[i].title, request.history[i].author)
            IN  /\ k \in Get(user_books, user_id, {})
                /\ user_id \in Get(book_users, k, {})

\* C10 as stated: a request during which a backend call failed still returns
\* a Response.
C10_FailureIsolated ==
    (pc = "done" /\ failed_at # {}) => outcome = "ok"

-----------------------------------------------------------------------------
(* Claims about the store, checked under SpecStore *)

IsRecommend == last_call.op = "recommend"
IsRecord == last_call.op = "record"

ItemKey(item) == make_key(item.title, item.author)
ResultKeys(result) == {ItemKey(result[i]) : i \in DOMAIN result}

\* Users other than eu who reported some seed key and also reported key k,
\* read off a user -> books relation ub.
CoUsers(ub, k, seed_books, eu) ==
    {u \in (DOMAIN ub) \ {eu} :
        /\ k \in ub[u]
        /\ \E b \in Range(seed_books) : make_key(b.title, b.author) \in ub[u]}

CoCount(ub, k, seed_books, eu) == Cardinality(CoUsers(ub, k, seed_books, eu))

\* C4: the list returned by recommend_from_cooccurrence is sorted
\* non-increasing by score, and of two returned candidates with equal score
\* the one with the higher raw co-occurrence count comes first.
C4_SortedByScoreThenCount ==
    IsRecommend =>
        LET r == last_call.result
            cnt(i) == CoCount(user_books, ItemKey(r[i]), last_call.seed_books,
                              last_call.exclude_user_id)
        IN  \A i, j \in DOMAIN r :
                i < j => /\ r[i].score >= r[j].score
                         /\ r[i].score = r[j].score => cnt(i) >= cnt(j)

C4_Witness ==
    /\ IsRecommend
    /\ \E i, j \in DOMAIN last_call.result :
          /\ i < j
          /\ last_call.result[i].score = last_call.result[j].score
          /\ CoCount(user_books, ItemKey(last_call.result[i]),
                     last_call.seed_books, last_call.exclude_user_id)
               > CoCount(user_books, ItemKey(last_call.result[j]),
                         last_call.seed_books, last_call.exclude_user_id)

\* The ratings of key k by users other than eu: their number and their sum.
OtherRaters(k, eu) == {u \in DOMAIN Get(book_ratings, k, EmptyDict) : u # eu}
OtherSum(k, eu) == SumRatings(book_ratings[k], OtherRaters(k, eu))

\* C5: a book rated by some user other than excludeUserId whose average over
\* those ratings is strictly below PEOPLE_ALSO_MIN_AVG_RATING never appears in
\* the result; a candidate whose average is at or above it is kept (it is in
\* the result unless the result was cut at limit entries).
C5_RatingGate ==
    IsRecommend =>
        LET r == last_call.result
            eu == last_call.exclude_user_id
            thr == settings.PEOPLE_ALSO_MIN_AVG_RATING
        IN  \A k \in DOMAIN book_info :
              OtherRaters(k, eu) # {} =>
                LET n == Cardinality(OtherRaters(k, eu))
                    sum == OtherSum(k, eu)
                IN  /\ 10 * sum < thr * n => k \notin ResultKeys(r)
                    /\ ( /\ 10 * sum >= thr * n
                         /\ CoCount(user_books, k, last_call.seed_books, eu) > 0
                         /\ k \notin SeedKeys(last_call.seed_books)
                         /\ book_info[k].title \notin last_call.exclude_titles )
                       => k \in ResultKeys(r) \/ Len(r) >= last_call.limit

\* Ratings 5 and 2 from two other users (average 3.5) at threshold 3.0: kept.
C5_Witness ==
    /\ IsRecommend
    /\ settings.PEOPLE_ALSO_MIN_AVG_RATING = 30
    /\ \E k \in ResultKeys(last_call.result) :
          /\ Cardinality(OtherRaters(k, last_call.exclude_user_id)) = 2
          /\ OtherSum(k, last_call.exclude_user_id) = 7

\* C6: reporting a book the user has already reported changes no edge and no
\* co-occurrence count, and a rating given with the second report is the one
\* stored afterwards.
C6_RecordIdempotent ==
    [][ ( /\ last_call'.op = "record"
          /\ calls' = calls + 1
          /\ Len(last_call'.books) = 1
          /\ make_key(last_call'.books[1].title, last_call'.books[1].author)
                \in Get(user_books, last_call'.uid, {}) )
        =>
        LET b == last_call'.books[1]
            k == make_key(b.title, b.author)
        IN  /\ user_books' = user_books
            /\ book_users' = book_users
            /\ \A x \in DOMAIN book_info, eu \in StoreUsers,
                  seed \in {BookX, BookA(NoRating), BookB(NoRating)} :
                    CoCount(user_books', x, <<seed>>, eu)
                        = CoCount(user_books, x, <<seed>>, eu)
            /\ b.rating # NoRating =>
                  /\ book_ratings'[k][last_call'.uid] = b.rating
                  /\ DOMAIN book_ratings'[k]
                        = DOMAIN Get(book_ratings, k, EmptyDict)
                            \cup {last_call'.uid}
      ]_vars

\* A second report of the same book by the same user with another rating.
C6_Witness ==
    /\ IsRecord
    /\ Len(last_call.books) = 1
    /\ last_call.repeat
    /\ last_call.books[1].rating # NoRating
    /\ last_call.old # NoRating
    /\ last_call.old # last_call.books[1].rating
    /\ book_ratings[make_key(last_call.books[1].title,
                             last_call.books[1].author)][last_call.uid]
          = last_call.books[1].rating

-----------------------------------------------------------------------------
(* Claims about request validation and the shelves of one request *)

\* C11: a request whose history is empty is rejected with an invalid-input
\* error: the step that takes it up ends it at once with outcome "invalid", no
\* Response, no backend or store query made, and the store left as it was.
C11_EmptyHistoryRejected ==
    [][(pc = "idle" /\ pc' # "idle" /\ request'.history = <<>>) =>
          /\ pc' = "done" /\ outcome' = "invalid" /\ response' = <<>>
          /\ queries' = 0
          /\ UNCHANGED store_vars]_vars

\* An empty history was rejected while the store held an earlier request's
\* history.
C11_Witness ==
    /\ pc = "done" /\ outcome = "invalid"
    /\ request.history = <<>>
    /\ DOMAIN user_books # {}

-----------------------------------------------------------------------------
(* Claims about the store's relations *)

\* C12: in every reachable state of the store, every key in some user's book
\* set or among the keys of book_users has a snapshot in book_info, every key
\* of book_ratings is a key of book_users, and every rater of a key is in that
\* key's user set.
C12_StoreInvariant ==
    /\ \A u \in DOMAIN user_books : \A k \in user_books[u] : k \in DOMAIN book_info
    /\ \A k \in DOMAIN book_users : k \in DOMAIN book_info
    /\ \A k \in DOMAIN book_ratings :
          /\ k \in DOMAIN book_users
          /\ \A u \in DOMAIN book_ratings[k] : u \in book_users[k]

\* Two users have reported and rated books, over at least two keys.
C12_Witness ==
    /\ Cardinality(DOMAIN user_books) >= 2
    /\ Cardinality(DOMAIN book_users) >= 2
    /\ \E k \in DOMAIN book_ratings : Cardinality(DOMAIN book_ratings[k]) >= 2

\* The two directions of the user <-> book relation agree.
Bidirectional ==
    /\ \A u \in DOMAIN user_books : \A k \in user_books[u] :
          k \in DOMAIN book_users /\ u \in book_users[k]
    /\ \A k \in DOMAIN book_users : \A u \in book_users[k] :
          u \in DOMAIN user_books /\ k \in user_books[u]

\* Thread t is inside a query and about to read the store.
Reading(t) == threads[t].pc \in {"other_users", "counts", "ranked"}

\* Thread w is inside a record_history that has written some of its updates
\* and not yet all of them.
PartlyApplied(w) ==
    \/ threads[w].pc \in {"book_users", "book_info", "book_ratings"}
    \/ threads[w].pc = "user_set" /\ threads[w].i > 1

\* C13: under any interleaving of concurrent record_history and
\* recommend_from_cooccurrence calls, in every state a query reads the two
\* directions of the relation agree and no record_history call is partly
\* applied.
C13_NoPartialRead ==
    \A t \in LockThreads :
        Reading(t) =>
            /\ Bidirectional
            /\ \A w \in LockThreads : ~PartlyApplied(w)

\* A query reads the store after one record_history has completed while
\* another thread waits for the lock to record.
C13_Witness ==
    \E t, w, x \in LockThreads :
        /\ Reading(t)
        /\ threads[w].pc = "done" /\ threads[w].op = "record"
        /\ threads[x].pc = "acquire" /\ threads[x].op = "record"
        /\ DOMAIN user_books # {}

\* C14: the snapshot of a key is fixed by the first record_history that
\* reports it: no later step, whatever the casing, genre or language of a
\* later report of the same normalized (title, author), changes or removes it.
C14_SnapshotFirstSeen ==
    [][\A k \in DOMAIN book_info :
          k \in DOMAIN book_info' /\ book_info'[k] = book_info[k]]_vars

\* A record_history has just reported a key whose stored snapshot differs from
\* the report in title casing, genre and language.
C14_Witness ==
    /\ IsRecord
    /\ \E i \in DOMAIN last_call.books :
          LET b == last_call.books[i]
              k == make_key(b.title, b.author)
          IN  /\ book_info[k].title # b.title
              /\ book_info[k].genre # b.genre
              /\ book_info[k].language # last_call.language

-----------------------------------------------------------------------------
(* Claims about the author shelves *)

\* An author name the engine must not build a shelf for: empty, or one of the
\* listed names once trimmed and lowercased.
UnknownAuthorName(a) ==
    \/ a = ""
    \/ Lower(a) \in {"unknown", "unknown author", "nieznany", "nieznany autor",
                     "brak", "n/a"}

KnownAuthorsOf(history) ==
    {history[j].author : j \in {x \in DOMAIN history :
                                   ~UnknownAuthorName(history[x].author)}}

AuthorShelves == {i \in DOMAIN categories : categories[i].type = "author_based"}

\* C15: every author_based shelf built for a request is the shelf of an
\* author of the history that is not an unknown-author name, and there are at
\* most as many author_based shelves as the history has distinct known
\* authors (so two entries by one known author and one by "Unknown Author"
\* give at most one).
C15_NoUnknownAuthorShelf ==
    pc # "idle" =>
        /\ \A i \in AuthorShelves :
              \E a \in KnownAuthorsOf(request.history) :
                  categories[i].category_title =
                      (IF request.preferred_language = "pl"
                       THEN "Wiecej od: " ELSE "More from: ") \o a
        /\ Cardinality(AuthorShelves) <= Cardinality(KnownAuthorsOf(request.history))

\* A Response for a history of two entries by one known author and one by
\* "Unknown Author", with the one author_based shelf it can have.
C15_Witness ==
    /\ pc = "done" /\ outcome = "ok"
    /\ Len(request.history) = 3
    /\ \E j \in DOMAIN request.history : request.history[j].author = "Unknown Author"
    /\ Cardinality(KnownAuthorsOf(request.history)) = 1
    /\ Cardinality(AuthorShelves) = 1

-----------------------------------------------------------------------------
(* Claims about the collaborative score and counts *)

\* The candidates of the last query, read off the store: keys that are no seed
\* key, whose snapshot title is not excluded, and that some user other than
\* the excluded one reported together with a seed key.
CandidateKeys ==
    {k \in DOMAIN book_info :
        /\ k \notin {make_key(b.title, b.author) : b \in Range(last_call.seed_books)}
        /\ book_info[k].title \notin last_call.exclude_titles
        /\ CoCount(user_books, k, last_call.seed_books, last_call.exclude_user_id) > 0}

CountOf(k) == CoCount(user_books, k, last_call.seed_books, last_call.exclude_user_id)

MaxCount == CHOOSE m \in {CountOf(k) : k \in CandidateKeys} :
                \A k \in CandidateKeys : CountOf(k) <= m

\* The blended score of key k as the fraction BlendNum(k) / BlendDen(k):
\* (cw * count/maxCount + rw * avgRating/5) / (cw + rw).
BlendNum(k) ==
    LET n == Cardinality(OtherRaters(k, last_call.exclude_user_id))
    IN  settings.COOCCURRENCE_WEIGHT * CountOf(k) * 5 * n
          + settings.RATING_WEIGHT * OtherSum(k, last_call.exclude_user_id) * MaxCount

BlendDen(k) ==
    (settings.COOCCURRENCE_WEIGHT + settings.RATING_WEIGHT)
       * MaxCount * 5 * Cardinality(OtherRaters(k, last_call.exclude_user_id))

\* C16 as stated: the score of every returned candidate is exactly
\* count / maxCount when no other user rated it, and otherwise exactly
\* (cw * baseScore + rw * avgRating / 5) / (cw + rw).  Scores are in hundredths.
C16_ScoreIsFormula ==
    IsRecommend =>
        \A i \in DOMAIN last_call.result :
            LET k == ItemKey(last_call.result[i])
                score == last_call.result[i].score
            IN  IF OtherRaters(k, last_call.exclude_user_id) = {}
                THEN score * MaxCount = 100 * CountOf(k)
                ELSE score * BlendDen(k) = 100 * BlendNum(k)

\* C16: the score of every returned candidate is count / maxCount rounded to
\* two decimals when no user other than the excluded one rated it or when
\* the two weights sum to zero, and otherwise the blend
\* (cw * baseScore + rw * avgRating / 5) / (cw + rw) rounded to two decimals.
C16_ScoreIsRoundedFormula ==
    IsRecommend =>
        \A i \in DOMAIN last_call.result :
            LET k == ItemKey(last_call.result[i])
                score == last_call.result[i].score
            IN  IF \/ OtherRaters(k, last_call.exclude_user_id) = {}
                   \/ settings.COOCCURRENCE_WEIGHT + settings.RATING_WEIGHT <= 0
                THEN score = Round2(CountOf(k), MaxCount)
                ELSE score = Round2(BlendNum(k), BlendDen(k))

\* A returned candidate rated 4 by another user under weights 0.1 and 0.2:
\* the blend 0.8666... is returned as 0.87.
C16_Witness ==
    /\ IsRecommend
    /\ settings = BlendConfig
    /\ \E i \in DOMAIN last_call.result :
          /\ OtherSum(ItemKey(last_call.result[i]), last_call.exclude_user_id) = 4
          /\ last_call.result[i].score = 87

-----------------------------------------------------------------------------
(* Claims about the first shelf and the items' language *)

\* C17: for a single-entry history, whenever the seed query gave at least one
\* non-excluded result with score >= SIMILARITY_THRESHOLD, the first shelf of
\* the Response has type content_similarity and is titled
\* "Because you read: {title}" ("Poniewaz czytales: {title}" for "pl") with
\* the title of that entry.
C17_FirstShelfBecauseYouRead ==
    (Returned /\ Len(request.history) = 1
        /\ seed_best >= settings.SIMILARITY_THRESHOLD) =>
        /\ response # <<>>
        /\ response[1].type = "content_similarity"
        /\ response[1].category_title =
              (IF request.preferred_language = "pl"
               THEN "Poniewaz czytales: " ELSE "Because you read: ")
                 \o request.history[1].title

\* The scenario of the spec: history [Dune by Frank Herbert], language "en",
\* a result above the threshold, and a Response with that first shelf.
C17_Witness ==
    /\ Returned /\ Len(request.history) = 1
    /\ request.history[1].title = "Dune" /\ request.preferred_language = "en"
    /\ seed_best >= settings.SIMILARITY_THRESHOLD
    /\ response[1].category_title = "Because you read: Dune"

\* C18: every item of every shelf of a Response, the people_also_added shelf
\* included, has the language the request prefers, whatever earlier requests
\* recorded and in whatever languages.
C18_ItemsInPreferredLanguage ==
    Returned =>
        \A i \in DOMAIN response : \A k \in DOMAIN response[i].items :
            response[i].items[k].language = request.preferred_language

-----------------------------------------------------------------------------
(* Claims about search_similar *)

IsSearch == last_call.op = "search"

\* The points that match the filters of the last search and whose title is
\* not excluded.
Eligible ==
    {p \in Matching(last_call.language, last_call.genre) :
        IndexPoints[p].title \notin last_call.exclude_titles}

\* C19: search_similar(limit, excludeTitles) never under-fills because of
\* exclusion: it returns exactly min(limit, n) items, n being the number of
\* index items that match the filters and whose title is not excluded.
C19_NeverUnderFills ==
    IsSearch => Len(last_call.result) = Min(last_call.limit, Cardinality(Eligible))

\* C20: in recommend_from_cooccurrence the candidates counted are exactly the
\* keys that are no seed key, whose snapshot title is not excluded and that
\* some user other than excludeUserId reported together with a seed key; the
\* count of each is the number of those users; and no seed key, no book with
\* an excluded snapshot title and no book reported only by excludeUserId is
\* returned.
C20_CountsAndExclusions ==
    IsRecommend =>
        /\ DOMAIN last_call.counts = CandidateKeys
        /\ \A k \in CandidateKeys : last_call.counts[k] = CountOf(k)
        /\ \A k \in ResultKeys(last_call.result) :
              /\ k \notin {make_key(b.title, b.author) :
                             b \in Range(last_call.seed_books)}
              /\ book_info[k].title \notin last_call.exclude_titles
              /\ \E u \in DOMAIN user_books :
                    u # last_call.exclude_user_id /\ k \in user_books[u]

\* A returned candidate that the excluded user and one other user reported:
\* its count is 1.  The excluded user also holds the seed book.
C20_Witness ==
    /\ IsRecommend
    /\ \E k \in ResultKeys(last_call.result) :
          /\ last_call.exclude_user_id \in book_users[k]
          /\ Cardinality(book_users[k]) = 2
          /\ last_call.counts[k] = 1
    /\ \E b \in Range(last_call.seed_books) :
          last_call.exclude_user_id \in book_users[make_key(b.title, b.author)]

-----------------------------------------------------------------------------
(* Two requests, the first with a long history: SpecVisible *)

VisibleUsers == {"u1", "u2"}

\* A history of four books that gives a later request three candidates, one
\* whose second book is rated below the gate, two single-book histories, and
\* one that names its second book in lower case.
VisibleHistories ==
    { << BookInput("Dune", "Frank Herbert", "SciFi", 5),
         BookInput("Emma", "Jane Austen", "Romance", 5),
         BookInput("Ubik", "Unknown Author", "SciFi", NoRating),
         BookInput("Solaris", "Stanislaw Lem", "SciFi", NoRating) >>,
      << BookInput("Dune", "Frank Herbert", "SciFi", NoRating),
         BookInput("Emma", "Jane Austen", "Romance", 2) >>,
      << BookInput("Dune", "Frank Herbert", "SciFi", NoRating) >>,
      << BookInput("Emma", "Jane Austen", "Romance", NoRating) >>,
      << BookInput("Dune", "Frank Herbert", "SciFi", NoRating), BookA2 >>,
      <<>> }

NextVisible ==
    \/ Reject(MaxRequests, VisibleUsers, VisibleHistories)
    \/ Begin(CoarseScores, MaxRequests, VisibleUsers, VisibleHistories)
    \/ AuthorShelf(CoarseScores)
    \/ GenreShelf(CoarseScores)
    \/ Finish(CoarseScores)
    \/ Return

SpecVisible == Init /\ [][NextVisible]_vars

\* The keys of the items of the people_also_added shelf of the Response.
PeopleKeys ==
    UNION {{ItemKey(response[i].items[k]) : k \in DOMAIN response[i].items} :
              i \in ShelfTypes({"people_also_added"})}

PeopleSizes ==
    {Len(response[i].items) : i \in ShelfTypes({"people_also_added"})}

\* The titles of the history and of the shelf built before people_also_added.
EarlierTitles ==
    ReadTitles \cup
    UNION {Titles(response[i].items) : i \in ShelfTypes({"content_similarity"})}

\* Book y was reported, together with the seed, by a user a other than the
\* one of the request; its snapshot title is not excluded and the ratings of
\* the other users do not gate it.
VisibleVia(a, y) ==
    LET seed_key == make_key(seed_book.title, seed_book.author)
        raters == Raters(TheStore, y, user_id)
    IN  /\ a # user_id
        /\ seed_key \in Get(user_books, a, {})
        /\ y \in Get(user_books, a, {})
        /\ y # seed_key
        /\ book_info[y].title \notin EarlierTitles
        /\ \/ raters = {}
           \/ ~BelowMinAvg(settings, SumRatings(book_ratings[y], raters),
                           Cardinality(raters))

VisibleCandidates ==
    {y \in DOMAIN book_info : \E a \in DOMAIN user_books : VisibleVia(a, y)}

-----------------------------------------------------------------------------
(* One request whose history has ties between authors and genres: SpecRank *)

\* Three authors once each and one genre twice; one author twice and three
\* genres once each; an unknown author and empty genres among the entries.
RankHistories ==
    { << BookInput("Ubik", "Jane Austen", "Romance", NoRating),
         BookInput("Lalka", "Frank Herbert", "SciFi", NoRating),
         BookInput("Momo", "Stanislaw Lem", "SciFi", NoRating) >>,
      << BookInput("Ubik", "Jane Austen", "Romance", NoRating),
         BookInput("Lalka", "Frank Herbert", "SciFi", NoRating),
         BookInput("Momo", "Frank Herbert", "Classic", NoRating) >>,
      << BookInput("Ubik", "Unknown Author", NoneStr, NoRating),
         BookInput("Lalka", "Frank Herbert", "", NoRating),
         BookInput("Momo", "Jane Austen", "Romance", NoRating) >>,
      <<>> }

NextRank ==
    \/ Reject(1, {"u1"}, RankHistories)
    \/ Begin(CoarseScores, 1, {"u1"}, RankHistories)
    \/ AuthorShelf(CoarseScores)
    \/ GenreShelf(CoarseScores)
    \/ Finish(CoarseScores)
    \/ Return

SpecRank == Init /\ [][NextRank]_vars

\* The authors and the genres of the history, entry by entry.
AuthorsOf(history) == [j \in DOMAIN history |-> history[j].author]
GenresOf(history) == [j \in DOMAIN history |-> history[j].genre]

\* The genres a genre_top shelf may be built for.
NonEmptyGenresOf(history) ==
    {history[j].genre : j \in DOMAIN history} \ {NoneStr, ""}

OccCount(xs, v) == Cardinality({j \in DOMAIN xs : xs[j] = v})

FirstOcc(xs, v) ==
    CHOOSE j \in DOMAIN xs : xs[j] = v /\ \A k \in DOMAIN xs : xs[k] = v => j <= k

\* Value a outranks value b: it occurs more often, or as often and earlier.
Outranks(xs, a, b) ==
    \/ OccCount(xs, a) > OccCount(xs, b)
    \/ OccCount(xs, a) = OccCount(xs, b) /\ FirstOcc(xs, a) < FirstOcc(xs, b)

\* top lists, best first, the (at most two) values of E that outrank all others.
IsTopTwo(xs, E, top) ==
    /\ Len(top) = Min(2, Cardinality(E))
    /\ \A i \in DOMAIN top :
          /\ top[i] \in E
          /\ \A w \in E \ {top[j] : j \in 1..i} : Outranks(xs, top[i], w)

AuthorTitle(language, a) ==
    (IF language = "pl" THEN "Wiecej od: " ELSE "More from: ") \o a

GenreTitle(language, g) ==
    IF language = "pl" THEN "Topowe " \o g \o " po polsku"
                       ELSE "Top " \o g \o " books"

\* The names queried for the shelves of one kind, in the order of the queries.
Planned(kind) ==
    LET idx == {i \in DOMAIN todo : todo[i].kind = kind}
        lo == CHOOSE i \in idx : \A j \in idx : i <= j
    IN  IF idx = {} THEN <<>>
        ELSE [i \in 1..Cardinality(idx) |-> todo[lo + i - 1].name]

-----------------------------------------------------------------------------
(* Claims about the serendipity shelf's selection *)

\* The results of the shelf's search whose score lies in [0.4, 0.75], in the
\* order the backend returned them.
RECURSIVE InBandResults(_)
InBandResults(results) ==
    IF results = <<>> THEN <<>>
    ELSE IF 400 <= Head(results).score /\ Head(results).score <= 750
         THEN <<Head(results)>> \o InBandResults(Tail(results))
         ELSE InBandResults(Tail(results))

\* The items of the serendipity shelf of the Response (none without a shelf).
SerendipityItems ==
    IF ShelfTypes({"serendipity"}) = {} THEN <<>>
    ELSE response[CHOOSE i \in ShelfTypes({"serendipity"}) : TRUE].items

\* C23: the serendipity shelf is built from one search with limit
\* 2 * maxPerCategory that excludes the used titles; its items are the first
\* min(maxPerCategory, m) of the m in-band results, in the backend's order,
\* none skipped; and its titles are not added to the used titles, which stay
\* the read titles and the titles of the other shelves.
C23_FirstInBandResults ==
    Returned =>
        LET band == InBandResults(last_call.result)
            n == Min(MaxPerCategory, Len(band))
        IN  /\ IsSearch
            /\ last_call.limit = 2 * MaxPerCategory
            /\ last_call.exclude_titles = used_titles
            /\ Len(SerendipityItems) = n
            /\ \A k \in 1..n :
                  /\ SerendipityItems[k].title = band[k].title
                  /\ SerendipityItems[k].author = band[k].author
                  /\ SerendipityItems[k].score = band[k].score
            /\ Titles(SerendipityItems) \cap used_titles = {}
            /\ used_titles = ReadTitles \cup
                  UNION {Titles(response[i].items) :
                            i \in (DOMAIN response) \ ShelfTypes({"serendipity"})}

\* The search returned more in-band results than the shelf may hold.
C23_Witness ==
    /\ Returned
    /\ Len(InBandResults(last_call.result)) = 3
    /\ Len(SerendipityItems) = MaxPerCategory

-----------------------------------------------------------------------------
(* Claims about the range of the collaborative score *)

\* RecommendedBook.match_score: Field(..., ge=0.0, le=1.0), in hundredths.
ValidMatchScore(match_score) == 0 <= match_score /\ match_score <= 100

\* C24: every score returned by recommend_from_cooccurrence lies in [0, 1]
\* under the non-negative weights configured, and the people_also_added shelf
\* built from the same store takes every result, without a cutoff, as an item
\* whose matchScore is that score and passes RecommendedBook's validation.
C24_ScoreInUnitInterval ==
    IsRecommend =>
        /\ \A i \in DOMAIN last_call.result :
              0 <= last_call.result[i].score /\ last_call.result[i].score <= 100
        /\ last_call.limit = MaxPerCategory =>
              LET shelf == get_people_also_added(settings, TheStore,
                               last_call.seed_books[1], "en",
                               last_call.exclude_titles, last_call.exclude_user_id)
              IN  /\ Len(shelf.items) = Len(last_call.result)
                  /\ \A i \in DOMAIN shelf.items :
                        /\ shelf.items[i].match_score = last_call.result[i].score
                        /\ shelf.items[i].title = last_call.result[i].title
                        /\ ValidMatchScore(shelf.items[i].match_score)

\* A result rated 5 by everyone and reported by every co-reader reaches the
\* upper end, next to a result scored below it.
C24_Witness ==
    /\ IsRecommend
    /\ last_call.limit = MaxPerCategory
    /\ settings.COOCCURRENCE_WEIGHT > 0 /\ settings.RATING_WEIGHT > 0
    /\ \E i, j \in DOMAIN last_call.result :
          /\ OtherRaters(ItemKey(last_call.result[i]), last_call.exclude_user_id) # {}
          /\ last_call.result[i].score = 100
          /\ last_call.result[j].score < 100

-----------------------------------------------------------------------------
(* Claims about the growth of the store *)

\* C25: the store only grows: a user -> book edge, a book -> user edge, a
\* snapshot or a (book, user) rating entry present before a step is present
\* after it; and a recommend_from_cooccurrence call changes nothing in the
\* store.
C25_StoreOnlyGrows ==
    [][ /\ \A u \in DOMAIN user_books :
              u \in DOMAIN user_books' /\ user_books[u] \subseteq user_books'[u]
        /\ \A k \in DOMAIN book_users :
              k \in DOMAIN book_users' /\ book_users[k] \subseteq book_users'[k]
        /\ \A k \in DOMAIN book_info : k \in DOMAIN book_info'
        /\ \A k \in DOMAIN book_ratings :
              /\ k \in DOMAIN book_ratings'
              /\ DOMAIN book_ratings[k] \subseteq DOMAIN book_ratings'[k]
        /\ (last_call'.op = "recommend" /\ calls' = calls) =>
              UNCHANGED store_vars ]_vars

\* A query answered from a store two record_history calls have filled, the
\* second by a different user.
C25_Witness ==
    /\ IsRecommend
    /\ calls = MaxRecords
    /\ Cardinality(DOMAIN user_books) = 2
    /\ \E k \in DOMAIN book_ratings : Cardinality(DOMAIN book_ratings[k]) = 2
    /\ last_call.result # <<>>

-----------------------------------------------------------------------------
(* Claims about requests without a user id *)

\* The ids generated for requests that carry no user id.
AnonIds == {"anon-" \o ToString(i) : i \in 1..MaxRequests}

HistoryKeys ==
    {make_key(request.history[i].title, request.history[i].author) :
        i \in DOMAIN request.history}

\* C26: when a request without a userId ends, its history is recorded under
\* a generated user id holding exactly the keys of that history (no edge went
\* to an existing user's set), and the store holds as many generated users as
\* there have been such requests, each in the user set of the books it sent.
C26_AnonymousRecordedFresh ==
    (pc = "done" /\ outcome # "invalid" /\ request.user_id \in {NoneStr, ""}) =>
        /\ user_id \in AnonIds
        /\ user_id \in DOMAIN user_books
        /\ user_books[user_id] = HistoryKeys
        /\ \A k \in HistoryKeys : user_id \in Get(book_users, k, {})
        /\ Cardinality((DOMAIN user_books) \cap AnonIds) = anon_count

-----------------------------------------------------------------------------
(* Claims about read books in the collaborative shelf *)

-----------------------------------------------------------------------------
(* Claims about the size of a Response *)

-----------------------------------------------------------------------------
(* Claims about the stored ratings *)

\* The rating user u has stored for key k in the rating map br (NoRating when
\* there is none).
StoredRating(br, k, u) == Get(Get(br, k, EmptyDict), u, NoRating)

RatingPairs(br) == {<<k, u>> \in (DOMAIN br) \X StoreUsers : u \in DOMAIN br[k]}

\* C29: a record_history call by user u changes no rating entry of another
\* user, and changes u's own entry for a key only if the list holds a book of
\* that key with a rating: a report without a rating keeps the stored rating,
\* and adds no entry.
C29_UnratedReportKeepsRatings ==
    [][ (last_call'.op = "record" /\ calls' = calls + 1) =>
          /\ \A p \in RatingPairs(book_ratings) \cup RatingPairs(book_ratings') :
                (\/ p[2] # last_call'.uid
                 \/ \A i \in DOMAIN last_call'.books :
                       \/ make_key(last_call'.books[i].title,
                                   last_call'.books[i].author) # p[1]
                       \/ last_call'.books[i].rating = NoRating)
                => /\ p \in RatingPairs(book_ratings)
                   /\ p \in RatingPairs(book_ratings')
                   /\ book_ratings'[p[1]][p[2]] = book_ratings[p[1]][p[2]] ]_vars

\* A user who had rated a book reports it again, spelled differently and
\* without a rating, and the stored rating is the old one.
C29_Witness ==
    /\ IsRecord
    /\ last_call.books[1].rating = NoRating
    /\ last_call.old # NoRating
    /\ StoredRating(book_ratings,
                    make_key(last_call.books[1].title, last_call.books[1].author),
                    last_call.uid) = last_call.old

-----------------------------------------------------------------------------
(* Claims about the termination of the store's calls *)

\* Thread t is between taking the lock and leaving the with block.
InsideLock(t) ==
    threads[t].pc \in {"setdefault", "user_set", "book_users", "book_info",
                       "book_ratings", "other_users", "counts", "ranked", "release"}

\* C30: under a fair scheduler every record_history and
\* recommend_from_cooccurrence call that has started eventually holds the
\* lock and eventually has returned with the lock released, a query with no
\* candidates included; the lock is held exactly by a thread inside its with
\* block, never by a call that has finished or not yet entered.
C30_EveryCallCompletes ==
    /\ [](\A t \in LockThreads : (lock = t) <=> InsideLock(t))
    /\ \A t \in FairThreads :
          (threads[t].pc = "acquire") ~> (threads[t].pc = "done" /\ lock # t)

\* A query that found no candidate has returned, and the other thread has
\* taken the lock after it to record.
C30_Witness ==
    \E t, w \in FairThreads :
        /\ threads[t].pc = "done" /\ threads[t].op = "recommend"
        /\ DOMAIN threads[t].counts = {}
        /\ lock = w /\ InsideLock(w)
        /\ threads[w].op = "record"

=============================================================================
